---- MODULE Spec2Model ----
(***************************************************************************)
(* Masked multi-head attention of folx/experimental/pallas/mha.py: the     *)
(* dispatcher mha, the dense reference_mha_kernel and the blocked          *)
(* mha_kernel run once per grid coordinate.                                *)
(*                                                                         *)
(* Tensors are functions over index tuples (0-based, as in the source).    *)
(* A float is modelled exactly where the code's result depends on it:      *)
(*   - a score is an integer, or Sentinel, which stands for -1e20;         *)
(*     subtracting the row maximum from the sentinel is absorbed, and its  *)
(*     exponential underflows to exactly 0;                                *)
(*   - exp is a fixed-point table (ExpFix), so a softmax row is a vector   *)
(*     of integer weights and its normaliser;                              *)
(*   - an output element is the pair <<numerator, normaliser>>; a zero     *)
(*     normaliser is the 0/0 = NaN of the float computation.               *)
(* The planner, the grid and the block descriptors of                      *)
(* folx/experimental/pallas/utils.py follow the design text.               *)
(***************************************************************************)
EXTENDS Integers, FiniteSets, Sequences, TLC

\* ---------------------------------------------------------------- bounds
BatchLen == 1
SeqLen == 2
NumHeads == 2
HeadLen == 1
MaxVal == 1

\* ------------------------------------------------------------- constants
\* q_block_len: int | None = None; None is falsy, as the kernel's `or` reads it
NoOverride == 0
\* stands for the magnitude of -1e20: larger than every score the bounds allow
SentinelMag == 1000000
Sentinel == 0 - SentinelMag

Batch == 0 .. (BatchLen - 1)
Heads == 0 .. (NumHeads - 1)
Dims == 0 .. (HeadLen - 1)
Val == 0 .. MaxVal
Rows(n) == 0 .. (n - 1)
Lens == 1 .. (SeqLen + 1)
Overrides == {NoOverride} \cup (1 .. (SeqLen + 1))
Kernels == {"pallas", "reference", "triton"}

Idx(n) == Batch \X Rows(n) \X Heads \X Dims
OutIdx(n) == Idx(n)

\* an output element nobody has written
Unwritten == <<0, 0 - 1>>

\* ------------------------------------------------------------ arithmetic
RECURSIVE Sum(_, _)
Sum(f, n) == IF n = 0 THEN 0 ELSE f[n - 1] + Sum(f, n - 1)

Max2(x, y) == IF x >= y THEN x ELSE y

RECURSIVE RowMax(_, _)
RowMax(f, n) == IF n = 1 THEN f[0] ELSE Max2(f[n - 1], RowMax(f, n - 1))

\* x - m in float32 where x may be the sentinel: |m| is far below the
\* spacing of floats near 1e20, so the sentinel absorbs it
FloatSub(x, m) ==
    IF x = Sentinel THEN (IF m = Sentinel THEN 0 ELSE Sentinel) ELSE x - m

RECURSIVE ExpFix(_)
ExpFix(n) == IF n = 0 THEN 1000 ELSE (ExpFix(n - 1) * 1000) \div 2718

\* exp(d) for d <= 0, in thousandths; exp(-1e20) underflows to 0
Exp(d) == IF d = Sentinel THEN 0 ELSE ExpFix(0 - d)

\* jax.nn.softmax over a row s of length n: the unnormalised weights
\* exp(s - max(s)); the probabilities are Weights[j] / Normaliser
softmax_weights(s, n) ==
    LET m == RowMax(s, n) IN [j \in Rows(n) |-> Exp(FloatSub(s[j], m))]

Normaliser(w, n) == Sum(w, n)

\* sum_j p[j] * x[j] with p = w / Normaliser
Weighted(w, x, n) == <<Sum([j \in Rows(n) |-> w[j] * x[j]], n), Normaliser(w, n)>>

Finite(x) == x[2] > 0

SameValue(x, y) ==
    /\ Finite(x) <=> Finite(y)
    /\ x[1] * y[2] = y[1] * x[2]

\* numpy broadcasting of an axis of length len to a longer one
Bc(len, i) == IF len = 1 THEN 0 ELSE i
Compatible(x, y) == x = y \/ x = 1 \/ y = 1

\* ------------------------------------------------------ reference kernel
\* mha.py:74  square_mask = mask[:, None, None, :] * mask[:, :, None, None]
\* (shape [batch, ml, 1, ml]; i and j are indices after broadcasting)
ref_square_mask(m, ml, b, i, j) == m[<<b, Bc(ml, j)>>] /\ m[<<b, Bc(ml, i)>>]

\* mha.py:75  s = einsum("Biha,Bjha->Bihj", q, k)
ref_einsum_qk(qq, kk, b, i, h, j) ==
    Sum([a \in Dims |-> qq[<<b, i, h, a>>] * kk[<<b, j, h, a>>]], HeadLen)

\* lengths of the query and key axes of s after mha.py:76 broadcasts it
\* against square_mask
RefILen(ml) == Max2(SeqLen, ml)
RefJLen(kl, ml) == Max2(kl, ml)

\* mha.py:76 raises when square_mask and s do not broadcast
RefWhereOk(kl, ml) == Compatible(SeqLen, ml) /\ Compatible(kl, ml)

\* mha.py:78 raises when p's key axis and v's sequence axis differ
RefEinsumOk(kl, vl, ml) == RefJLen(kl, ml) = vl

\* mha.py:76  s = where(square_mask, s, -1e20): the row (b, i, h) of s
ref_s(qq, kk, m, kl, ml, b, i, h) ==
    [j \in Rows(RefJLen(kl, ml)) |->
        IF ref_square_mask(m, ml, b, i, j)
        THEN ref_einsum_qk(qq, kk, b, Bc(SeqLen, i), h, Bc(kl, j))
        ELSE Sentinel]

\* mha.py:77  p = softmax(s, axis=-1): the weights of the row (b, i, h)
ref_p(qq, kk, m, kl, ml, b, i, h) ==
    softmax_weights(ref_s(qq, kk, m, kl, ml, b, i, h), RefJLen(kl, ml))

\* mha.py:64-79: the tensor reference_mha_kernel returns
reference_mha_kernel(qq, kk, vv, m, kl, ml) ==
    [x \in Idx(RefILen(ml)) |->
        Weighted(ref_p(qq, kk, m, kl, ml, x[1], x[2], x[3]),
                 [j \in Rows(RefJLen(kl, ml)) |-> vv[<<x[1], j, x[3], x[4]>>]],
                 RefJLen(kl, ml))]

\* -------------------------------------------------- planner, grid, blocks
\* the tile length a given q_block_len stands for: the whole sequence when
\* there is none (mha.py:103, q_block_len or q_ref.shape[0])
TileLen(qbl) == IF qbl = NoOverride THEN SeqLen ELSE qbl

\* utils.compute_q_and_kv_block_len: fails unless the tile length divides
\* the sequence; the key/value block is always the whole sequence
PlanOk(seq_len, qbl) == qbl = NoOverride \/ seq_len % qbl = 0
compute_q_and_kv_block_len(seq_len, qbl) == <<qbl, seq_len>>

\* utils.create_grid: (batch, heads, num_query_blocks)
create_grid(batch_len, seq_len, num_heads, qbl) ==
    Rows(batch_len) \X Rows(num_heads) \X Rows(seq_len \div TileLen(qbl))

\* pallas program_id(axis) of the instance at grid coordinate c
program_id(c, axis) == c[axis + 1]

\* utils.get_value_or_laplacian_block_spec: the sequence rows of the block
\* a coordinate sees; a block of the whole sequence starts at 0
get_value_or_laplacian_block_spec(seq_len, block_len, c) ==
    LET len == IF block_len = NoOverride THEN seq_len ELSE block_len
        start == IF len = seq_len THEN 0 ELSE c[3] * len
    IN [r \in Rows(len) |-> start + r]

\* utils.get_mask_block_spec: the mask row of the coordinate's batch element
get_mask_block_spec(m, seq_len, c) == [j \in Rows(seq_len) |-> m[<<c[1], j>>]]

\* ---------------------------------------------------------- blocked kernel
\* mha.py:102  q_idx = 0 if q_block_len is None else program_id(1)
q_idx(c, qbl) == IF qbl = NoOverride THEN 0 ELSE program_id(c, 1)

\* mha.py:105  q_slice = dslice(q_idx * q_block_len, q_block_len)
q_slice(c, qbl) == [r \in Rows(TileLen(qbl)) |-> q_idx(c, qbl) * TileLen(qbl) + r]

InMaskRef(pos) == pos \in Rows(SeqLen)

\* mha.py:106  q_mask = load(mask_ref, (q_slice,)): the values a load can
\* return; a position outside mask_ref yields whatever the memory holds
pl_load(mask_ref, slice, len) ==
    {qm \in [Rows(len) -> BOOLEAN] :
        \A r \in Rows(len) : InMaskRef(slice[r]) => qm[r] = mask_ref[slice[r]]}

\* mha.py:107-112: the score row r of the instance
kernel_s(qq, kk, kv_mask, qrows, q_mask, c, r) ==
    [j \in Rows(SeqLen) |->
        IF q_mask[r] /\ kv_mask[j]
        THEN Sum([a \in Dims |->
                    (IF q_mask[r] THEN qq[<<c[1], qrows[r], c[2], a>>] ELSE 0)
                  * (IF kv_mask[j] THEN kk[<<c[1], j, c[2], a>>] ELSE 0)],
                 HeadLen)
        ELSE Sentinel]

\* mha.py:113  p = softmax(s, axis=1)
kernel_p(qq, kk, kv_mask, qrows, q_mask, c, r) ==
    softmax_weights(kernel_s(qq, kk, kv_mask, qrows, q_mask, c, r), SeqLen)

\* mha.py:111  v = where(kv_mask[:, None], v_ref[:, :], 0.0)
kernel_v(vv, kv_mask, c, a) ==
    [j \in Rows(SeqLen) |-> IF kv_mask[j] THEN vv[<<c[1], j, c[2], a>>] ELSE 0]

\* mha.py:102-114: the tile o the instance at c computes, given what the
\* load of q_mask returned
mha_kernel(qq, kk, vv, m, c, qbl, q_mask) ==
    LET kv_mask == get_mask_block_spec(m, SeqLen, c)
        qrows == get_value_or_laplacian_block_spec(SeqLen, qbl, c)
    IN [r \in Rows(TileLen(qbl)), a \in Dims |->
            Weighted(kernel_p(qq, kk, kv_mask, qrows, q_mask, c, r),
                     kernel_v(vv, kv_mask, c, a), SeqLen)]

\* a store of the first row of the tile only, o_ref[0, :] = o[0]
StoredRows_first_row(qbl) == {0}

\* mha.py:115  o_ref[:, :] = o: the rows of the tile the instance stores
StoredRows(qbl) == Rows(TileLen(qbl))

\* the output elements o_ref covers for the coordinate (out_specs, mha.py:47)
o_ref(c, qbl) ==
    LET orows == get_value_or_laplacian_block_spec(SeqLen, qbl, c)
    IN [r \in Rows(TileLen(qbl)), a \in Dims |-> <<c[1], orows[r], c[2], a>>]

\* ------------------------------------------------------------------ state
VARIABLES
    q, k, v, mask,      \* the caller's tensors (never assigned by the code)
    kLen, vLen, mLen,   \* sequence lengths of k, v and mask (q's is SeqLen)
    kernel,             \* the backend name passed to mha
    q_block_len,        \* the tile length override passed to mha
    kv_block_len,       \* the planner's key/value block length (mha.py:35)
    pc,                 \* where the call of mha stands
    pending,            \* grid coordinates whose instance has not run yet
    loaded,             \* q_mask as loaded by each instance that has run
    o,                  \* the output tensor
    writes,             \* per output element, the number of stores to it
    writer,             \* per output element, the coordinates that stored to it
    opsRun,             \* attention operations executed so far
    result              \* how the call ended

vars == <<q, k, v, mask, kLen, vLen, mLen, kernel, q_block_len, kv_block_len,
          pc, pending, loaded, o, writes, writer, opsRun, result>>

inputs == <<q, k, v, mask, kLen, vLen, mLen, kernel, q_block_len>>

WellFormed == kLen = SeqLen /\ vLen = SeqLen /\ mLen = SeqLen

Const(n, x) == [i \in Idx(n) |-> x]

\* q as drawn for a call that reads it: one value per (batch, position, dim),
\* the same for every head
PerPosition(f) == [i \in Idx(SeqLen) |-> f[<<i[1], i[2], i[4]>>]]

\* The tensors of a call. A call that reaches a kernel with tensors of one
\* shape draws k and v freely over Val and q per position; a call that fails
\* before reading them, or whose k, v or mask has another sequence length,
\* draws constant q, k, v.
Init ==
    /\ kernel \in Kernels
    /\ q_block_len \in Overrides
    /\ kLen \in Lens /\ vLen \in Lens /\ mLen \in Lens
    /\ IF /\ kLen = SeqLen /\ vLen = SeqLen /\ mLen = SeqLen
          /\ kernel \in {"pallas", "reference"}
          /\ PlanOk(SeqLen, q_block_len)
       THEN /\ \E f \in [Batch \X Rows(SeqLen) \X Dims -> Val] : q = PerPosition(f)
            /\ k \in [Idx(SeqLen) -> Val]
            /\ v \in [Idx(SeqLen) -> Val]
       ELSE /\ \E x \in Val : q = Const(SeqLen, x)
            /\ \E x \in Val : k = Const(kLen, x)
            /\ \E x \in Val : v = Const(vLen, x)
    /\ mask \in [Batch \X Rows(mLen) -> BOOLEAN]
    /\ kv_block_len = NoOverride
    /\ pc = "call"
    /\ pending = {}
    /\ loaded = <<>>
    /\ o = [x \in OutIdx(SeqLen) |-> Unwritten]
    /\ writes = [x \in OutIdx(SeqLen) |-> 0]
    /\ writer = [x \in OutIdx(SeqLen) |-> {}]
    /\ opsRun = 0
    /\ result = "none"

Raise(err) ==
    /\ pc' = "done"
    /\ result' = err

\* a dispatcher that does not let the planner's refusal end the call
mha_plan_unchecked ==
    /\ pc = "call"
    /\ kv_block_len' = compute_q_and_kv_block_len(SeqLen, q_block_len)[2]
    /\ pc' = "dispatch"
    /\ UNCHANGED <<inputs, pending, loaded, o, writes, writer, opsRun, result>>

\* mha.py:34-35: unpack q.shape and plan the tiling, whatever the backend
mha_plan ==
    /\ pc = "call"
    /\ IF PlanOk(SeqLen, q_block_len)
       THEN /\ kv_block_len' = compute_q_and_kv_block_len(SeqLen, q_block_len)[2]
            /\ pc' = "dispatch"
            /\ UNCHANGED result
       ELSE /\ Raise("ConfigurationError")
            /\ UNCHANGED kv_block_len
    /\ UNCHANGED <<inputs, pending, loaded, o, writes, writer, opsRun>>

\* mha.py:37-55, 60: the blocked backend, operands of one shape: pallas_call
\* allocates the output and launches the grid
mha_pallas ==
    /\ pc = "dispatch" /\ kernel = "pallas" /\ WellFormed
    /\ pending' = create_grid(BatchLen, SeqLen, NumHeads, q_block_len)
    /\ pc' = "grid"
    /\ UNCHANGED <<inputs, kv_block_len, loaded, o, writes, writer, opsRun, result>>

\* mha.py:37-55, 60 with operands that do not fit the block descriptors: mha
\* checks nothing, and what pallas_call makes of them is not this code's
mha_pallas_mismatched ==
    /\ pc = "dispatch" /\ kernel = "pallas" /\ ~WellFormed
    /\ pc' = "done"
    /\ \E out \in {"ShapeError", "Unspecified"} :
          /\ result' = out
          /\ opsRun' = IF out = "Unspecified" THEN opsRun + 1 ELSE opsRun
    /\ UNCHANGED <<inputs, kv_block_len, pending, loaded, o, writes, writer>>

\* mha.py:56-57, 60: the reference backend
mha_reference ==
    /\ pc = "dispatch" /\ kernel = "reference"
    /\ pc' = "ref_scores"
    /\ UNCHANGED <<inputs, kv_block_len, pending, loaded, o, writes, writer,
                   opsRun, result>>

\* a dispatcher whose else branch falls back to the reference kernel
mha_unknown_fallback ==
    /\ pc = "dispatch" /\ kernel \notin {"pallas", "reference"}
    /\ pc' = "ref_scores"
    /\ UNCHANGED <<inputs, kv_block_len, pending, loaded, o, writes, writer,
                   opsRun, result>>

\* mha.py:58-59
mha_unknown ==
    /\ pc = "dispatch" /\ kernel \notin {"pallas", "reference"}
    /\ Raise("ConfigurationError")
    /\ UNCHANGED <<inputs, kv_block_len, pending, loaded, o, writes, writer, opsRun>>

\* mha.py:102-115: the kernel instance at grid coordinate c
kernel_instance(c) ==
    /\ pc = "grid" /\ c \in pending
    /\ \E q_mask \in pl_load(get_mask_block_spec(mask, SeqLen, c),
                             q_slice(c, q_block_len), TileLen(q_block_len)) :
          LET tile == mha_kernel(q, k, v, mask, c, q_block_len, q_mask)
              ref == o_ref(c, q_block_len)
              at(x) == {ra \in StoredRows(q_block_len) \X Dims : ref[ra] = x}
          IN /\ o' = [x \in DOMAIN o |->
                        IF at(x) # {} THEN tile[CHOOSE ra \in at(x) : TRUE] ELSE o[x]]
             /\ writes' = [x \in DOMAIN o |-> writes[x] + Cardinality(at(x))]
             /\ writer' = [x \in DOMAIN o |->
                        IF at(x) # {} THEN writer[x] \cup {c} ELSE writer[x]]
             /\ loaded' = (c :> q_mask) @@ loaded
    /\ pending' = pending \ {c}
    /\ opsRun' = opsRun + 1
    /\ UNCHANGED <<inputs, kv_block_len, pc, result>>

\* mha.py:60-61: every instance has run; the call returns o
mha_return ==
    /\ pc = "grid" /\ pending = {}
    /\ pc' = "done"
    /\ result' = "ok"
    /\ UNCHANGED <<inputs, kv_block_len, pending, loaded, o, writes, writer, opsRun>>

\* mha.py:74-76: square_mask, the scores, and where(), which raises when
\* the two do not broadcast (the einsum of line 75 has run by then)
ref_scores ==
    /\ pc = "ref_scores"
    /\ opsRun' = opsRun + 2
    /\ IF RefWhereOk(kLen, mLen)
       THEN pc' = "ref_softmax" /\ UNCHANGED result
       ELSE Raise("ShapeError")
    /\ UNCHANGED <<inputs, kv_block_len, pending, loaded, o, writes, writer>>

\* mha.py:77
ref_softmax ==
    /\ pc = "ref_softmax"
    /\ opsRun' = opsRun + 1
    /\ pc' = "ref_output"
    /\ UNCHANGED <<inputs, kv_block_len, pending, loaded, o, writes, writer, result>>

\* mha.py:78-79, 60-61: the second einsum, which raises when v's sequence
\* axis is not p's key axis; otherwise the call returns o
ref_output ==
    /\ pc = "ref_output"
    /\ IF RefEinsumOk(kLen, vLen, mLen)
       THEN /\ o' = reference_mha_kernel(q, k, v, mask, kLen, mLen)
            /\ opsRun' = opsRun + 1
            /\ pc' = "done"
            /\ result' = "ok"
       ELSE /\ Raise("ShapeError")
            /\ UNCHANGED <<o, opsRun>>
    /\ UNCHANGED <<inputs, kv_block_len, pending, loaded, writes, writer>>

Next ==
    \/ mha_plan
    \/ mha_pallas
    \/ mha_pallas_mismatched
    \/ mha_reference
    \/ mha_unknown
    \/ \E c \in pending : kernel_instance(c)
    \/ mha_return
    \/ ref_scores
    \/ ref_softmax
    \/ ref_output

Spec == Init /\ [][Next]_vars

\* ------------------------------------------------------ derived notions
Returned == pc = "done" /\ result = "ok"
RanBlocked == Returned /\ kernel = "pallas" /\ WellFormed

Grid == create_grid(BatchLen, SeqLen, NumHeads, q_block_len)

\* the grid coordinates whose output tile holds element x, and x's place in it
Covering(x) ==
    {cr \in Grid \X (Rows(TileLen(q_block_len)) \X Dims) :
        o_ref(cr[1], q_block_len)[cr[2]] = x}

\* the output of the blocked backend on (qq, kk, vv, m) when the instances'
\* loads of q_mask return ld
BlockedOutput(qq, kk, vv, m, ld) ==
    [x \in OutIdx(SeqLen) |->
        LET cr == CHOOSE cr \in Covering(x) : TRUE
        IN mha_kernel(qq, kk, vv, m, cr[1], q_block_len, ld[cr[1]])[cr[2]]]

\* what the backend of this call returns for other keys and values
CallOutput(kk, vv) ==
    IF kernel = "pallas"
    THEN BlockedOutput(q, kk, vv, mask, loaded)
    ELSE reference_mha_kernel(q, kk, vv, mask, SeqLen, SeqLen)

\* the tensors that differ from t at most in the rows (b, j, :, :)
AltAt(t, b, j) ==
    {[x \in Idx(SeqLen) |->
        IF x[1] = b /\ x[2] = j THEN g[<<x[3], x[4]>>] ELSE t[x]] :
     g \in [Heads \X Dims -> Val]}

\* the score row and the softmax weights the call computed for (b, i, h)
CallScores(b, i, h) ==
    IF kernel = "pallas"
    THEN LET cr == CHOOSE cr \in Covering(<<b, i, h, 0>>) : TRUE
             c == cr[1]
         IN kernel_s(q, k, get_mask_block_spec(mask, SeqLen, c),
                     get_value_or_laplacian_block_spec(SeqLen, q_block_len, c),
                     loaded[c], c, cr[2][1])
    ELSE ref_s(q, k, mask, SeqLen, SeqLen, b, i, h)

\* dynamic_slice, which the interpreter lowers the load to, clamps the start
\* of the slice so that it fits
ClampedLoad(c) ==
    LET len == TileLen(q_block_len)
        start == q_slice(c, q_block_len)[0]
        fit == IF start + len > SeqLen THEN SeqLen - len ELSE start
    IN [r \in Rows(len) |-> mask[<<c[1], fit + r>>]]

\* --------------------------------------------------------------- claims

\* C1: the blocked backend returns the reference backend's output at every
\* output position, masked query positions included, for every tile length
\* that divides the sequence.
C1_BackendEquivalence ==
    RanBlocked =>
        \A x \in OutIdx(SeqLen) :
            SameValue(o[x], reference_mha_kernel(q, k, v, mask, SeqLen, SeqLen)[x])

\* C2: for either backend, changing K[b, j] and V[b, j] of a key position j
\* with mask[b, j] = false changes the output at no query position of b,
\* valid or masked, for no head.
C2_MaskExclusivity ==
    (Returned /\ WellFormed) =>
        \A b \in Batch, j \in Rows(SeqLen) :
            ~mask[<<b, j>>] =>
                \A kk \in AltAt(k, b, j), vv \in AltAt(v, b, j) :
                    \A x \in OutIdx(SeqLen) :
                        x[1] = b => CallOutput(kk, vv)[x] = o[x]

\* C3: once every grid coordinate has run, every output element has been
\* stored exactly once, by exactly one coordinate, and the query tiles
\* cover [0, sequence) with no gap and no overlap; no element is ever
\* stored twice on the way.
C3_WriteOnce ==
    /\ (kernel = "pallas" /\ pc \in {"grid", "done"}) =>
          \A x \in OutIdx(SeqLen) : writes[x] <= 1
    /\ RanBlocked =>
          /\ \A x \in OutIdx(SeqLen) :
                /\ writes[x] = 1
                /\ Cardinality(writer[x]) = 1
                /\ o[x] # Unwritten
          /\ \A b \in Batch, h \in Heads, i \in Rows(SeqLen) :
                Cardinality({c \in Grid : c[1] = b /\ c[2] = h /\
                    \E r \in Rows(TileLen(q_block_len)) :
                        get_value_or_laplacian_block_spec(SeqLen, q_block_len, c)[r] = i}) = 1

\* the grid of more than one query tile per (batch, head) has run
C3_Witness ==
    /\ RanBlocked
    /\ TileLen(q_block_len) < SeqLen
    /\ opsRun = Cardinality(Grid)

C5_UnknownBackend ==
    kernel \notin {"pallas", "reference"} =>
        /\ opsRun = 0
        /\ pending = {}
        /\ \A x \in DOMAIN o : o[x] = Unwritten /\ writes[x] = 0
        /\ pc \in {"call", "dispatch", "done"}
        /\ pc = "done" => result = "ConfigurationError"

\* an unknown backend failed at the dispatch, the tile length being fine
C5_Witness ==
    /\ pc = "done"
    /\ kernel \notin {"pallas", "reference"}
    /\ PlanOk(SeqLen, q_block_len)
    /\ result = "ConfigurationError"

\* C6: with the reference backend the outcome of the call (output, or
\* success versus error) is the one of the call without override, for every
\* tile length override.
C6_ReferenceIgnoresTiling ==
    (kernel = "reference" /\ pc = "done") =>
        IF RefWhereOk(kLen, mLen) /\ RefEinsumOk(kLen, vLen, mLen)
        THEN result = "ok" /\ o = reference_mha_kernel(q, k, v, mask, kLen, mLen)
        ELSE result = "ShapeError"

\* C7: on the blocked backend an override that does not divide the sequence
\* length ends the call in a configuration error; no kernel instance runs
\* and no grid is launched.
C7_NonDividingTile ==
    (kernel = "pallas" /\ ~PlanOk(SeqLen, q_block_len)) =>
        /\ opsRun = 0
        /\ pending = {}
        /\ \A x \in DOMAIN o : writes[x] = 0
        /\ pc \in {"call", "done"}
        /\ pc = "done" => result = "ConfigurationError"

\* the blocked backend refused a tile length that leaves a remainder
C7_Witness ==
    /\ pc = "done"
    /\ kernel = "pallas"
    /\ q_block_len # NoOverride
    /\ SeqLen % q_block_len # 0
    /\ result = "ConfigurationError"

\* C8: a call whose k, v or mask does not have q's sequence length ends in
\* a configuration error before any attention operation, on both backends.
C8_ShapeValidation ==
    (pc = "done" /\ ~WellFormed /\ kernel \in {"pallas", "reference"}) =>
        result = "ConfigurationError" /\ opsRun = 0

\* C9: for either backend and every (b, i) with mask[b, i] = false, every
\* score of the row is the sentinel, the normaliser is not zero, the row is
\* uniform over all key positions and the output is finite.
C9_FullyMaskedRow ==
    (Returned /\ WellFormed) =>
        \A b \in Batch, i \in Rows(SeqLen), h \in Heads :
            ~mask[<<b, i>>] =>
                LET s == CallScores(b, i, h)
                    w == softmax_weights(s, SeqLen)
                IN /\ \A j \in Rows(SeqLen) : s[j] = Sentinel
                   /\ Normaliser(w, SeqLen) # 0
                   /\ \A j \in Rows(SeqLen) : w[j] = w[0]
                   /\ \A a \in Dims : Finite(o[<<b, i, h, a>>])

\* C10: the q_mask an instance at (b, h, qb) loads is the mask of the
\* sequence positions of the query tile it receives, and the slice lies
\* within [0, sequence).
C10_QueryMaskAlignment ==
    \A c \in DOMAIN loaded :
        LET qrows == get_value_or_laplacian_block_spec(SeqLen, q_block_len, c)
            slice == q_slice(c, q_block_len)
        IN \A r \in Rows(TileLen(q_block_len)) :
              /\ slice[r] = qrows[r]
              /\ InMaskRef(slice[r])
              /\ loaded[c][r] = mask[<<c[1], qrows[r]>>]

====
